---- MODULE Spec2Model ----
(***************************************************************************)
(* Model of src/cpp/llm_server.cpp: the chat session (history + engine     *)
(* key-value cache) and the chat turn pipeline of generate_response.       *)
(*                                                                         *)
(* The inference engine (llama.h) is an external collaborator.  Its calls  *)
(* are modelled by what the adapter can observe of them: the size of the   *)
(* rendering, the token count, the sampled token, the detokenized piece,   *)
(* and the number of tokens resident in the key-value cache.  Values the   *)
(* engine chooses (which token is sampled, whether a decode succeeds) are  *)
(* nondeterministic inputs of the actions.                                 *)
(***************************************************************************)
EXTENDS Integers, Sequences, FiniteSets, TLC

VARIABLES
    model,          \* properties of the loaded model (template, vocabulary)
    chat_history,   \* LlmContext::chat_history: the texts of the "user" entries
    kv,             \* tokens resident in the cache: llama_kv_self_n_tokens(ctx)
    turns,          \* number of turns started on the session
    allocated,      \* message texts strdup'd by llm_chat_add_user and not freed
    op,             \* the interface function called last
    pc,             \* "idle" | "gen" | "ret" | "crashed" | "closed"
    cb,             \* generate_response: callback != nullptr
    max_tokens,     \* generate_response: max_tokens
    temperature,    \* generate_response: temperature
    n_prompt,       \* generate_response: tokens.size()
    i,              \* generate_response: loop counter i
    n_pos,          \* generate_response: n_pos
    smashed,        \* the byte after piece[] was overwritten and will be noticed
    response,       \* generate_response: std::string response (bytes)
    streamed,       \* bytes the sink has read, in call order
    log,            \* engine and sink calls of the current turn, in call order
    result          \* the char* generate_response returned

vars == <<model, chat_history, allocated, kv, turns, op, pc, cb, max_tokens, temperature,
          n_prompt, i, n_pos, smashed, response, streamed, log, result>>

session == <<model, chat_history, allocated, turns>>
turn == <<cb, max_tokens, temperature, n_prompt, i, n_pos, smashed, response, streamed, log, result>>

-----------------------------------------------------------------------------
(* Bounds of the model *)

MaxHist == 2        \* history entries per session
MaxTexts == 2       \* messages appended over the life of a session
MaxTurns == 2       \* turns per session, specification Spec
MaxTurnsLong == 5   \* turns per session, specification SpecLong

(* Program constants *)

context_limit == 8192   \* the context window of the session
BufSize == 8192         \* std::vector<char> buf(8192)
TokSlack == 16          \* tokens.resize(strlen(buf.data()) + 16)
LoopLimit == 8192       \* n_pos < 8192
PieceSize == 256        \* char piece[256]

\* llm_init: the context parameters the session is created with.
ctx_params_oversized == [n_ctx |-> 16384, n_batch |-> 16384]
ctx_params == [n_ctx |-> 8192, n_batch |-> 2048]

-----------------------------------------------------------------------------
(* Bytes and C strings *)

Min(S) == CHOOSE x \in S : \A y \in S : x <= y

\* The bytes of s a reader of a NUL-terminated string sees: those before the
\* first zero byte.
CStr(s) ==
    LET zeros == {k \in 1..Len(s) : s[k] = 0}
    IN  IF zeros = {} THEN s ELSE SubSeq(s, 1, Min(zeros) - 1)

\* strdup(str): a copy of the C string at str.
strdup(s) == CStr(s)

Fill(n, b) == [k \in 1..n |-> b]

-----------------------------------------------------------------------------
(* The loaded model: what the engine's template renderer and tokenizer do   *)
(* with a history.  tmpl: the model has a usable chat template; msg/asst:   *)
(* bytes the template adds per message and for the assistant prompt;        *)
(* msg_tok/asst_tok/bos: the tokens they and the BOS flag contribute.       *)

Models ==
    { [tmpl |-> TRUE,  msg |-> 10, asst |-> 11, msg_tok |-> 2, asst_tok |-> 3, bos |-> 1],
      [tmpl |-> TRUE,  msg |-> 10, asst |-> 0,  msg_tok |-> 2, asst_tok |-> 0, bos |-> 0],
      [tmpl |-> FALSE, msg |-> 0,  asst |-> 0,  msg_tok |-> 0, asst_tok |-> 0, bos |-> 0] }

\* Message texts a caller appends, by their length in bytes and in tokens.
Texts == {"hi", "mid", "edge", "big"}

ByteLen(t) ==
    CASE t = "hi"   -> 2
      [] t = "mid"  -> 6000
      [] t = "edge" -> 8171
      [] t = "big"  -> 30000

TokLen(t) ==
    CASE t = "hi"   -> 1
      [] t = "mid"  -> 2042
      [] t = "edge" -> 1000
      [] t = "big"  -> 8189

RECURSIVE RenderedBytes(_, _)
RenderedBytes(m, h) ==
    IF h = <<>> THEN m.asst ELSE m.msg + ByteLen(Head(h)) + RenderedBytes(m, Tail(h))

RECURSIVE RenderedTokens(_, _)
RenderedTokens(m, h) ==
    IF h = <<>> THEN m.asst_tok ELSE m.msg_tok + TokLen(Head(h)) + RenderedTokens(m, Tail(h))

\* llama_chat_apply_template(vocab, nullptr, history, size, true, buf, size):
\* the length of the rendering, or a negative value when rendering fails.
llama_chat_apply_template(m, h) == IF ~m.tmpl THEN -1 ELSE RenderedBytes(m, h)

\* The tokens of the complete rendering of h (add BOS set).
PromptTokens(m, h) == m.bos + RenderedTokens(m, h)

-----------------------------------------------------------------------------
(* The vocabulary: what llama_vocab_is_eog and llama_token_to_piece report  *)
(* for the tokens the sampler can draw.                                     *)

Vocab == {"eog", "a", "nul", "empty", "long", "full"}

llama_vocab_is_eog(t) == t = "eog"

\* llama_token_to_piece(vocab, t, piece, 256, 0, true): n is the value
\* returned (negative: the piece does not fit the buffer), bytes the first n
\* bytes of the buffer when n > 0.
llama_token_to_piece(t) ==
    CASE t = "a"     -> [n |-> 1,   bytes |-> <<97>>]
      [] t = "nul"   -> [n |-> 1,   bytes |-> <<0>>]
      [] t = "empty" -> [n |-> 0,   bytes |-> <<>>]
      [] t = "long"  -> [n |-> -300, bytes |-> <<>>]
      [] t = "full"  -> [n |-> PieceSize, bytes |-> Fill(PieceSize, 122)]
      [] OTHER       -> [n |-> 0,   bytes |-> <<>>]

\* sample_token(ctx, vocab, temperature): the tokens the sampler chain
\* (temperature, seeded dist) can return; the logits are the engine's.
sample_token(temp) == Vocab

-----------------------------------------------------------------------------
(* The engine's decode.  dec is the engine's own outcome for the call:      *)
(* "ok", "fail" (a non-zero return), or "abort" (the engine terminates the  *)
(* process on a batch larger than n_batch).  A batch is stored only if it   *)
(* is non-empty, no larger than n_batch, and fits the n_ctx cells.          *)

Accepted(k, n, dec) ==
    /\ dec = "ok"
    /\ n >= 1
    /\ n <= ctx_params.n_batch
    /\ k + n <= ctx_params.n_ctx

\* llama_decode(ctx, batch) with a batch of n tokens: the new token count.
llama_decode(k, n, dec) == IF Accepted(k, n, dec) THEN k + n ELSE k

\* Its return value, which the adapter discards.
decode_rc(k, n, dec) == IF Accepted(k, n, dec) THEN 0 ELSE 1

Aborts(n, dec) == dec = "abort" /\ n > ctx_params.n_batch

\* The outcomes of the environment for one call of the adapter:
\*   tok_fail  the tokenizer reports a negative count
\*   ub        what an out-of-bounds access of this call does
\*   dec       the engine's outcome for the decode of this call
Envs == [tok_fail : BOOLEAN, ub : {"benign", "overread", "crash"}, dec : {"ok", "fail", "abort"}]

\* Those that differ for an iteration of the loop, which does not tokenize,
\* reads no string and decodes one token.
IterEnvs == [tok_fail : {FALSE}, ub : {"benign", "crash"}, dec : {"ok", "fail"}]

-----------------------------------------------------------------------------
(* generate_response, lines 92-144: render, tokenize, prefill.              *)

NoResult == [tag |-> "none", bytes |-> <<>>, text |-> ""]
Returned(s) == [tag |-> "response", bytes |-> s, text |-> ""]
Sentinel(s) == [tag |-> "sentinel", bytes |-> <<>>, text |-> s]

\* strlen(buf.data()) after the rendering of len bytes is in buf: the buffer
\* holds a terminating zero unless len = buf.size(), where strlen reads past
\* the buffer.
strlen_buf(len, ub) ==
    IF len = BufSize /\ ub = "overread" THEN len + 3 ELSE len

\* llama_tokenize(vocab, buf, strlen, tokens, strlen + 16, true, false).
llama_tokenize(m, h, slen, len, tok_fail) ==
    LET count == PromptTokens(m, h) + (IF slen > len THEN 1 ELSE 0)
    IN  IF tok_fail \/ count > slen + TokSlack THEN -count - 1 ELSE count

\* if (len < 0)
template_failed(len) == len < 0

\* if (n_tokens < 0)
tokenize_unchecked(n_tokens) == FALSE
tokenize_failed(n_tokens) == n_tokens < 0

TurnStart(k, mt, temp, callback) ==
    [pc |-> "ret", kv |-> k, cb |-> callback, max_tokens |-> mt, temperature |-> temp,
     n_prompt |-> 0, i |-> 0, n_pos |-> 0, response |-> <<>>, streamed |-> <<>>,
     smashed |-> FALSE, log |-> <<>>, result |-> NoResult]

\* The prefill of n_tokens tokens: the batch, the logits mark at index
\* n_tokens - 1 (outside the batch when it is empty), llama_decode.
prefill(t1, k, n_tokens, env) ==
    IF n_tokens = 0 /\ env.ub = "crash"
      THEN [t1 EXCEPT !.pc = "crashed"]
    ELSE IF Aborts(n_tokens, env.dec)
      THEN [t1 EXCEPT !.pc = "crashed",
                      !.n_prompt = n_tokens,
                      !.log = Append(@, <<"prefill", n_tokens, 1>>)]
    ELSE [t1 EXCEPT !.pc = "gen",
                    !.kv = llama_decode(k, n_tokens, env.dec),
                    !.n_prompt = n_tokens,
                    !.n_pos = n_tokens,
                    !.log = Append(@, <<"prefill", n_tokens, decode_rc(k, n_tokens, env.dec)>>)]

generate_response(m, h, k, mt, temp, callback, env) ==
    LET len == llama_chat_apply_template(m, h)
        slen == strlen_buf(len, env.ub)
        n_tokens == llama_tokenize(m, h, slen, len, env.tok_fail)
        t0 == [TurnStart(k, mt, temp, callback) EXCEPT !.log = <<<<"template", len>>>>]
        t1 == [t0 EXCEPT !.log = Append(@, <<"tokenize", slen, n_tokens>>)]
    IN  IF template_failed(len)
          THEN [t0 EXCEPT !.result = Sentinel("[Error: chat template failed]")]
        ELSE IF len = BufSize /\ env.ub = "crash"
          THEN [t0 EXCEPT !.pc = "crashed"]
        ELSE IF tokenize_failed(n_tokens)
          THEN [t1 EXCEPT !.result = Sentinel("[Error: tokenization failed]")]
        ELSE prefill(t1, k, n_tokens, env)

-----------------------------------------------------------------------------
(* generate_response, lines 145-167: the loop and the return.               *)

\* for (...; i < max_tokens && n_pos < 8192; ...)
loop_continues_once_more(ii, mt, np) == ii <= mt /\ np < LoopLimit
loop_continues(ii, mt, np) == ii < mt /\ np < LoopLimit

\* The calls one iteration makes for a token that is not end-of-generation,
\* in the order of the code: response.append, callback, llama_decode.
iteration_calls_sink_last(t, p, callback, rc) ==
    <<<<"sample", t>>>>
    \o (IF p.n > 0 THEN <<<<"append", t>>>> ELSE <<>>)
    \o <<<<"decode", t, rc>>>>
    \o (IF p.n > 0 /\ callback THEN <<<<"sink", t>>>> ELSE <<>>)
iteration_calls(t, p, callback, rc) ==
    <<<<"sample", t>>>>
    \o (IF p.n > 0 THEN <<<<"append", t>>>> ELSE <<>>)
    \o (IF p.n > 0 /\ callback THEN <<<<"sink", t>>>> ELSE <<>>)
    \o <<<<"decode", t, rc>>>>

\* return strdup(response.c_str()).  A frame whose guard byte was overwritten
\* is found corrupted when the function returns.
generate_return(s) ==
    IF s.smashed THEN [s EXCEPT !.pc = "crashed"]
    ELSE [s EXCEPT !.pc = "ret", !.result = Returned(strdup(s.response))]

\* Lines 152-164: the iteration for a token that is not end-of-generation.
\* piece[n] = '\0' with n = 256 writes the byte after the buffer, in the
\* frame of generate_response: the write itself cannot trap; the byte it
\* overwrites is either of no consequence or noticed at the return.
iteration_body(s, t, env) ==
    LET p == llama_token_to_piece(t)
    IN  [s EXCEPT !.response = IF p.n > 0 THEN @ \o p.bytes ELSE @,
                  !.streamed = IF p.n > 0 /\ s.cb THEN @ \o CStr(p.bytes) ELSE @,
                  !.smashed = @ \/ (p.n > 0 /\ s.cb /\ p.n >= PieceSize /\ env.ub = "crash"),
                  !.kv = llama_decode(@, 1, env.dec),
                  !.n_pos = @ + 1,
                  !.i = @ + 1,
                  !.log = @ \o iteration_calls(t, p, s.cb, decode_rc(s.kv, 1, env.dec))]

\* One iteration of the loop with t the sampled token.
generate_iteration_eog_checked_last(s, t, env) ==
    IF llama_vocab_is_eog(t) THEN generate_return(iteration_body(s, t, env))
    ELSE iteration_body(s, t, env)
generate_iteration(s, t, env) ==
    IF llama_vocab_is_eog(t)
      THEN generate_return([s EXCEPT !.log = Append(@, <<"sample", t>>)])
    ELSE iteration_body(s, t, env)

-----------------------------------------------------------------------------
(* The session operations *)

\* llm_kv_clear: llama_kv_self_clear(ctx)
llm_kv_clear_skipped(k) == k
llm_kv_clear(k) == 0

\* llm_chat_clear: chat_history.clear(); llm_kv_clear(llm)
llm_chat_clear_history_only(h, k) == [chat_history |-> <<>>, kv |-> k]
llm_chat_clear(h, k) == [chat_history |-> <<>>, kv |-> llm_kv_clear(k)]

\* llm_chat_add_user: chat_history.push_back({"user", strdup(message)})
llm_chat_add_user(h, message) == Append(h, message)

\* The live copies of message texts after the strdup of llm_chat_add_user.
\* Nothing in the file frees one: chat_history.clear() drops the entries, which
\* hold plain pointers, and ~LlmContext frees the context and the model.
strdup_message(a) == a + 1

\* llm_chat_respond / llm_chat_respond_stream: the turn on the history as it
\* is; the history is only read.
llm_chat_respond_pushes_reply(m, h, k, mt, temp, callback, env) ==
    [chat_history |-> Append(h, "hi"),
     t |-> generate_response(m, h, k, mt, temp, callback, env)]
llm_chat_respond(m, h, k, mt, temp, callback, env) ==
    [chat_history |-> h, t |-> generate_response(m, h, k, mt, temp, callback, env)]

\* llm_generate / llm_generate_stream: clear, add the prompt, respond.
llm_generate_without_clear(m, h, k, prompt, mt, temp, callback, env) ==
    LET h1 == llm_chat_add_user(h, prompt)
    IN  [chat_history |-> h1, t |-> generate_response(m, h1, k, mt, temp, callback, env)]
llm_generate(m, h, k, prompt, mt, temp, callback, env) ==
    LET c == llm_chat_clear(h, k)
        h1 == llm_chat_add_user(c.chat_history, prompt)
    IN  [chat_history |-> h1, t |-> generate_response(m, h1, c.kv, mt, temp, callback, env)]

-----------------------------------------------------------------------------
(* The state machine *)

Cur ==
    [pc |-> pc, kv |-> kv, cb |-> cb, max_tokens |-> max_tokens,
     temperature |-> temperature, n_prompt |-> n_prompt, i |-> i, n_pos |-> n_pos,
     response |-> response, streamed |-> streamed, smashed |-> smashed, log |-> log,
     result |-> result]

Set(r) ==
    /\ pc' = r.pc
    /\ kv' = r.kv
    /\ cb' = r.cb
    /\ max_tokens' = r.max_tokens
    /\ temperature' = r.temperature
    /\ n_prompt' = r.n_prompt
    /\ i' = r.i
    /\ n_pos' = r.n_pos
    /\ smashed' = r.smashed
    /\ response' = r.response
    /\ streamed' = r.streamed
    /\ log' = r.log
    /\ result' = r.result

\* The inputs the callers of a specification draw from.
Inputs == [maxT |-> MaxTurns, mts |-> {-1, 0, 1, 2}, temps |-> {1},
           vocab |-> Vocab, texts |-> {"hi", "edge", "big"}, envs |-> Envs, iter_envs |-> IterEnvs]

InputsLong == [maxT |-> MaxTurnsLong, mts |-> {0, 1}, temps |-> {0, 1},
               vocab |-> {"eog", "a"}, texts |-> {"hi", "mid", "big"},
               envs |-> [tok_fail : {FALSE}, ub : {"benign"}, dec : {"ok", "fail"}],
               iter_envs |-> [tok_fail : {FALSE}, ub : {"benign"}, dec : {"ok", "fail"}]]

Init ==
    /\ model \in Models
    /\ chat_history = <<>>
    /\ kv = 0
    /\ allocated = 0
    /\ turns = 0
    /\ op = "llm_init"
    /\ pc = "idle"
    /\ cb = FALSE
    /\ max_tokens = 0
    /\ temperature = 0
    /\ n_prompt = 0
    /\ i = 0
    /\ n_pos = 0
    /\ smashed = FALSE
    /\ response = <<>>
    /\ streamed = <<>>
    /\ log = <<>>
    /\ result = NoResult

AddUser(in) ==
    /\ pc = "idle"
    /\ Len(chat_history) < MaxHist
    /\ allocated < MaxTexts
    /\ \E message \in in.texts : chat_history' = llm_chat_add_user(chat_history, message)
    /\ allocated' = strdup_message(allocated)
    /\ op' = "llm_chat_add_user"
    /\ UNCHANGED <<model, kv, turns, pc, turn>>

ChatClear ==
    /\ pc = "idle"
    /\ LET c == llm_chat_clear(chat_history, kv)
       IN  chat_history' = c.chat_history /\ kv' = c.kv
    /\ op' = "llm_chat_clear"
    /\ UNCHANGED <<model, allocated, turns, pc, turn>>

KvClear ==
    /\ pc = "idle"
    /\ kv' = llm_kv_clear(kv)
    /\ op' = "llm_kv_clear"
    /\ UNCHANGED <<model, chat_history, allocated, turns, pc, turn>>

\* llm_chat_respond (stream = FALSE) and llm_chat_respond_stream (TRUE), up
\* to the first iteration of the loop.
Respond(in, stream) ==
    /\ pc = "idle"
    /\ turns < in.maxT
    /\ \E mt \in in.mts, temp \in in.temps, env \in in.envs :
          LET r == llm_chat_respond(model, chat_history, kv, mt, temp, stream, env)
          IN  chat_history' = r.chat_history /\ Set(r.t)
    /\ turns' = turns + 1
    /\ op' = IF stream THEN "llm_chat_respond_stream" ELSE "llm_chat_respond"
    /\ UNCHANGED <<model, allocated>>

\* llm_generate (stream = FALSE) and llm_generate_stream (TRUE).
Generate(in, stream) ==
    /\ pc = "idle"
    /\ turns < in.maxT
    /\ allocated < MaxTexts
    /\ \E prompt \in in.texts, mt \in in.mts, temp \in in.temps, env \in in.envs :
          LET g == llm_generate(model, chat_history, kv, prompt, mt, temp, stream, env)
          IN  chat_history' = g.chat_history /\ Set(g.t)
    /\ turns' = turns + 1
    /\ allocated' = strdup_message(allocated)
    /\ op' = IF stream THEN "llm_generate_stream" ELSE "llm_generate"
    /\ UNCHANGED model

\* One iteration of the loop of generate_response.
Iterate(in) ==
    /\ pc = "gen"
    /\ loop_continues(i, max_tokens, n_pos)
    /\ \E t \in sample_token(temperature) \cap in.vocab, env \in in.iter_envs :
          /\ env.ub = "crash" => cb /\ llama_token_to_piece(t).n >= PieceSize
          /\ Set(generate_iteration(Cur, t, env))
    /\ UNCHANGED <<session, op>>

\* The loop ends by its condition and generate_response returns.
LoopExit ==
    /\ pc = "gen"
    /\ ~loop_continues(i, max_tokens, n_pos)
    /\ Set(generate_return(Cur))
    /\ UNCHANGED <<session, op>>

\* llm_free_string(result): by llm_chat_respond_stream itself, or by the
\* caller of llm_chat_respond before its next call.
FreeString ==
    /\ pc = "ret"
    /\ Set([TurnStart(kv, 0, 0, FALSE) EXCEPT !.pc = "idle"])
    /\ op' = "llm_free_string"
    /\ UNCHANGED session

\* llm_free: delete llm (the context and its cache are freed; the vector of
\* entries is destroyed, the texts its entries point to are not).
Free ==
    /\ pc = "idle"
    /\ pc' = "closed"
    /\ kv' = 0
    /\ op' = "llm_free"
    /\ UNCHANGED <<model, chat_history, allocated, turns, turn>>

Next ==
    \/ AddUser(Inputs)
    \/ ChatClear
    \/ KvClear
    \/ Respond(Inputs, FALSE)
    \/ Respond(Inputs, TRUE)
    \/ Generate(Inputs, FALSE)
    \/ Generate(Inputs, TRUE)
    \/ Iterate(Inputs)
    \/ LoopExit
    \/ FreeString
    \/ Free

Spec == Init /\ [][Next]_vars

NextLong ==
    \/ AddUser(InputsLong)
    \/ ChatClear
    \/ KvClear
    \/ Respond(InputsLong, FALSE)
    \/ Respond(InputsLong, TRUE)
    \/ Generate(InputsLong, FALSE)
    \/ Generate(InputsLong, TRUE)
    \/ Iterate(InputsLong)
    \/ LoopExit
    \/ FreeString
    \/ Free

SpecLong == Init /\ [][NextLong]_vars

-----------------------------------------------------------------------------
(* Helpers of the properties *)

\* The entries of the log of the given kind, in order.
Entries(l, kind) == SelectSeq(l, LAMBDA e : e[1] = kind)

Count(l, kind) == Len(Entries(l, kind))

InTurn == pc \in {"gen", "ret", "crashed"}

RespondOps == {"llm_chat_respond", "llm_chat_respond_stream"}
GenerateOps == {"llm_generate", "llm_generate_stream"}

\* A step that begins a turn.
TurnBegins == pc = "idle" /\ pc' \in {"gen", "ret", "crashed"}

-----------------------------------------------------------------------------
\* C1: in every reachable state of a session, whatever calls were made
\* (several turns without clearing, prompts of any length), the number of
\* tokens resident in the key-value cache is at most context_limit (8192).
C1_KvWithinContextLimit == kv <= context_limit

\* The cache is full after several turns that were not cleared, and the
\* decode of one more token was refused.
C1_Witness ==
    /\ kv = context_limit
    /\ turns >= 4
    /\ pc = "gen"
    /\ Len(log) >= 1
    /\ log[Len(log)][1] = "decode"
    /\ log[Len(log)][3] = 1

\* C2: kv_tokens never decreases across a step that is not clear_history,
\* kv_clear or close (llm_generate calls clear_history), and it is 0 in the
\* state right after every clear_history and every kv_clear.
C2_KvMonotoneUntilCleared ==
    [][ /\ (kv' < kv =>
              \/ ChatClear
              \/ KvClear
              \/ Free
              \/ (pc = "idle" /\ op' \in GenerateOps))
        /\ (ChatClear \/ KvClear => kv' = 0) ]_vars

\* A second turn runs on the cache the first one left, and the cache was
\* cleared after a turn that had filled it.
C2_Witness ==
    /\ turns = 2
    /\ pc = "gen"
    /\ op \in RespondOps
    /\ n_prompt > 0
    /\ kv > n_prompt

\* C3: for every turn run with a sink, the concatenation in call order of
\* the pieces delivered to the sink equals, byte for byte, the string the
\* turn returns.
C3_StreamEqualsReturned ==
    (pc = "ret" /\ cb /\ result.tag = "response") => streamed = result.bytes

\* C4: for every turn and every max_tokens (0 and negative included), the
\* tokens sampled, the pieces appended and the single-token decodes are each
\* at most max(max_tokens, 0).
C4_AtMostMaxTokens ==
    InTurn =>
        LET most == IF max_tokens > 0 THEN max_tokens ELSE 0
        IN  /\ Count(log, "sample") <= most
            /\ Count(log, "append") <= most
            /\ Count(log, "decode") <= most

\* A turn that used up its max_tokens = 2.
C4_Witness ==
    /\ pc = "ret"
    /\ max_tokens = 2
    /\ Count(log, "sample") = 2
    /\ Count(log, "append") = 2
    /\ Count(log, "decode") = 2

\* C5: a sampled end-of-generation token ends the loop at once: its piece is
\* never appended, never delivered to the sink, never decoded, and nothing
\* is sampled after it.
C5_EogEndsLoop ==
    \A k \in 1..Len(log) :
        /\ (log[k][1] \in {"append", "sink", "decode"} => log[k][2] # "eog")
        /\ (log[k][1] = "sample" /\ log[k][2] = "eog" => k = Len(log) /\ pc # "gen")

\* A streaming turn that appended a piece and then sampled end-of-generation.
C5_Witness ==
    /\ pc = "ret"
    /\ cb
    /\ Count(log, "append") >= 1
    /\ log[Len(log)] = <<"sample", "eog">>

\* The tokens of the entries of the given kind, in order.
RECURSIVE TokensOf(_)
TokensOf(l) == IF l = <<>> THEN <<>> ELSE <<Head(l)[2]>> \o TokensOf(Tail(l))

\* The sampled tokens the sink is due for.
Delivered(t) == t # "eog" /\ llama_token_to_piece(t).n > 0

\* C6: in a streaming turn the sink is invoked exactly once for each sampled
\* token that is not end-of-generation and whose piece has at least one
\* byte, and for no other token, in sampling order; the invocation for a
\* token comes after its sampling and right before the decode that submits it.
C6_SinkOncePerPiece ==
    InTurn =>
        /\ TokensOf(Entries(log, "sink")) =
              (IF cb THEN SelectSeq(TokensOf(Entries(log, "sample")), Delivered) ELSE <<>>)
        /\ \A k \in 1..Len(log) :
              log[k][1] = "sink" =>
                  /\ k < Len(log)
                  /\ log[k + 1][1] = "decode"
                  /\ log[k + 1][2] = log[k][2]
                  /\ \E j \in 1..(k - 1) :
                        /\ log[j] = <<"sample", log[k][2]>>
                        /\ \A x \in (j + 1)..(k - 1) : log[x][1] = "append"

\* A streaming turn of two tokens, one delivered to the sink and one not.
C6_Witness ==
    /\ pc = "ret"
    /\ cb
    /\ Count(log, "sink") = 1
    /\ Count(log, "decode") = 2

\* C7: every clear_history ends with the history empty and kv_tokens 0, and
\* no operation empties the history while leaving tokens in the cache.
C7_ClearHistoryClearsCache ==
    [][ /\ (ChatClear => chat_history' = <<>> /\ kv' = 0)
        /\ (chat_history # <<>> /\ chat_history' = <<>> => kv' = 0) ]_vars

\* clear_history was called after a turn, on a session with a history.
C7_Witness == op = "llm_chat_clear" /\ turns >= 1 /\ chat_history = <<>> /\ kv = 0

\* C8: from every reachable state, generate(prompt, ...) leaves the state that
\* clear_history, append_user(prompt), respond(...) leave, and returns what
\* they return; the streaming variant likewise with respond_stream.
C8_GenerateIsClearAppendRespond ==
    [][ (pc = "idle" /\ op' \in GenerateOps) =>
          /\ Len(chat_history') = 1
          /\ cb' = (op' = "llm_generate_stream")
          /\ \E env \in Envs :
                LET cleared == llm_chat_clear(chat_history, kv)
                    appended == llm_chat_add_user(cleared.chat_history, chat_history'[1])
                    responded == generate_response(model, appended, cleared.kv,
                                                   max_tokens', temperature', cb', env)
                IN  /\ chat_history' = appended
                    /\ Cur' = responded ]_vars

\* generate was called on a session that had run a turn before.
C8_Witness == op \in GenerateOps /\ turns >= 2 /\ pc = "gen" /\ n_prompt > 0 /\ kv = n_prompt

\* The turn failed in the template renderer or in the tokenizer.
TemplateFailed(l) == \E k \in 1..Len(l) : l[k][1] = "template" /\ l[k][2] < 0
TokenizeFailed(l) == \E k \in 1..Len(l) : l[k][1] = "tokenize" /\ l[k][3] < 0

EngineCalls == {"prefill", "sample", "append", "sink", "decode"}

\* C9: if the template renderer reports failure the turn returns
\* "[Error: chat template failed]", if the tokenizer returns a negative count
\* "[Error: tokenization failed]"; in both cases the turn leaves the history
\* and the cache as it found them, submits no batch, samples no token and
\* never invokes the sink.
C9_SentinelsLeaveSessionAlone ==
    [][ TurnBegins =>
          /\ (TemplateFailed(log') =>
                 result' = Sentinel("[Error: chat template failed]"))
          /\ (TokenizeFailed(log') =>
                 result' = Sentinel("[Error: tokenization failed]"))
          /\ (TemplateFailed(log') \/ TokenizeFailed(log') =>
                 /\ pc' = "ret"
                 /\ \A k \in 1..Len(log') : log'[k][1] \notin EngineCalls
                 /\ streamed' = <<>>
                 /\ (op' \in RespondOps => chat_history' = chat_history /\ kv' = kv)
                 /\ (op' \in GenerateOps => Len(chat_history') = 1 /\ kv' = 0)) ]_vars

\* A second turn on a filled cache ended with the tokenization sentinel.
C9_Witness ==
    /\ pc = "ret"
    /\ op \in RespondOps
    /\ result = Sentinel("[Error: tokenization failed]")
    /\ kv > 0
    /\ chat_history # <<>>

\* The prefill decode of the turn failed.
PrefillFailed(l) == \E k \in 1..Len(l) : l[k][1] = "prefill" /\ l[k][3] # 0

\* C10: if the decode of the prefill batch fails the turn ends there: no
\* token is sampled, no piece is delivered, no further decode is submitted,
\* and the caller gets an error, not a response.
C10_PrefillFailureEndsTurn ==
    (InTurn /\ PrefillFailed(log)) =>
        /\ Count(log, "sample") = 0
        /\ Count(log, "sink") = 0
        /\ Count(log, "decode") = 0
        /\ (pc = "ret" => result.tag = "sentinel")

\* C11: a turn whose prompt is more than context_limit tokens reports an
\* error to the caller: what it returns is not an ordinary response.
C11_OverflowIsReported ==
    (pc = "ret" /\ n_prompt > context_limit) => result.tag = "sentinel"

\* C12: a respond or respond_stream call leaves the history exactly as it
\* found it, at every step from the call to the release of its result: no
\* assistant entry is appended.
C12_RespondKeepsHistory ==
    [][ ((pc = "idle" /\ op' \in RespondOps) \/ (InTurn /\ op \in RespondOps))
          => chat_history' = chat_history ]_vars

\* A respond call returned a non-empty reply on a session with a history.
C12_Witness ==
    /\ pc = "ret"
    /\ op \in RespondOps
    /\ result.tag = "response"
    /\ result.bytes # <<>>
    /\ chat_history # <<>>

ReachedLoop(l) == Count(l, "prefill") > 0

\* The last token sampled in the turn is an end-of-generation token.
EogSampled(l) ==
    LET samples == Entries(l, "sample")
    IN  samples # <<>> /\ llama_vocab_is_eog(samples[Len(samples)][2])

\* C14: a respond call that reached the loop has returned once the loop is
\* left, and the loop is left at the first of: an end-of-generation token is
\* sampled, max_tokens tokens were generated, the position counter reached
\* the context limit; what it then returns is the response accumulated so
\* far (possibly empty), never an error sentinel.
C14_LoopEndsWithTheResponse ==
    (op = "llm_chat_respond" /\ ReachedLoop(log) /\ pc \notin {"gen", "crashed"}) =>
        /\ pc = "ret"
        /\ \/ EogSampled(log)
           \/ i >= max_tokens
           \/ n_pos >= context_limit
        /\ result.tag = "response"
        /\ result.bytes = response

\* C15: whatever the length of the rendering (below, at or above the size of
\* the first buffer), the string handed to the tokenizer is the complete
\* rendering, byte for byte: as many bytes as the renderer reported.
C15_TokenizerGetsTheRendering ==
    \A k \in 1..Len(log), j \in 1..Len(log) :
        (log[k][1] = "tokenize" /\ log[j][1] = "template") => log[k][2] = log[j][2]

\* The tokens of the turn that are not end-of-generation tokens.
Generated(l) == SelectSeq(Entries(l, "sample"), LAMBDA e : ~llama_vocab_is_eog(e[2]))

\* Every decode call of the turn so far was accepted by the engine.
DecodesAccepted(l) ==
    \A k \in 1..Len(l) : l[k][1] \in {"prefill", "decode"} => l[k][3] = 0

\* C16: in every turn, the second turn of an uncleared session included,
\* the cache holds exactly n_prompt tokens after the prefill and exactly
\* n_prompt plus the number of generated non-end tokens after each
\* iteration and at the end of the turn.  Stated here for the turns whose
\* decodes the engine all accepted.
C16_CacheHoldsPromptPlusGenerated ==
    (pc \in {"gen", "ret"} /\ ReachedLoop(log) /\ DecodesAccepted(log)) =>
        kv = Entries(log, "prefill")[1][2] + Len(Generated(log))

\* C17: every text copied by append_user is released when the history is
\* cleared or the session is closed: right after clear_history, and after
\* close, no copy made by append_user is still allocated.
C17_TextsReleased ==
    (op = "llm_chat_clear" \/ pc = "closed") => allocated = 0

\* C18: the prefill batch of every turn that reaches the prefill holds at
\* least one token, so that the index n_tokens - 1 whose logits flag is set
\* lies within the batch; for every history (the empty one included) and
\* every non-negative count of the tokenizer (0 included).  A turn reaches
\* the prefill when the count is not negative, and its batch holds that many
\* tokens.
C18_PrefillBatchNotEmpty ==
    \A k \in 1..Len(log) :
        (log[k][1] = "tokenize" /\ log[k][3] >= 0) => log[k][3] - 1 >= 0

\* C19: in a turn with a sink, the zero byte written at piece[n] before the
\* sink is called lies inside the piece buffer, for every length n from 1
\* to PieceSize that the detokenizer can return.
C19_TerminatorInsidePiece ==
    \A k \in 1..Len(log) :
        log[k][1] = "sink" => llama_token_to_piece(log[k][2]).n <= PieceSize - 1

\* C20: the prefill batch, submitted in one decode call, never holds more
\* tokens than the batch size of the engine, for every prompt of at most
\* context_limit tokens.
C20_PrefillWithinBatchSize ==
    \A k \in 1..Len(log) :
        (log[k][1] = "prefill" /\ log[k][2] <= context_limit) =>
            log[k][2] <= ctx_params.n_batch

=============================================================================
